---------------------------- MODULE Spec2Model ----------------------------
(***************************************************************************)
(* A model of the compyler front end: the regular-expression tokenizer     *)
(* (lexer.py, configured by main.py), the recursive-descent parser         *)
(* (parser.py) and the struct / function checker (typecheck.py).           *)
(*                                                                         *)
(* Source lines are not modelled: every token and AST node carries a line  *)
(* that is used for diagnostics only and never read by a decision.         *)
(***************************************************************************)
EXTENDS Integers, Sequences, FiniteSets, TLC

VARIABLES
    \* ---- typecheck.py, structs
    structs,    \* the list handed to check_structs: the Struct objects (mutated in place)
    parsed,     \* the same list as the parser delivered it (never mutated; for reference)
    scope,      \* the set object that is expand_struct's default argument `scope`
    idx,        \* position of check_structs' for loop: the next struct to check
    result,     \* "idle" | "running" | "ok" | the exception that ended the call
    fresh,      \* TRUE until the first check_structs call of the process has ended
    \* ---- typecheck.py, functions
    funcs,      \* the list handed to check_funcs
    fidx,       \* position of check_funcs' for loop: the next function to check
    outcome,    \* "running" | "ok" | the exception that ended check_funcs
    \* ---- lexer.py
    src,        \* the source text handed to tokenize, a sequence of characters
    pos,        \* tokenize's pos: the number of characters matched so far
    line,       \* tokenize's line
    tokens,     \* the tokens yielded so far
    spans,      \* for each yielded token, where its text starts and ends in src
    lexing,     \* "off" | "running" | "done" (the generator is exhausted)
    \* ---- parser.py
    input,      \* the token sequence handed to the parser
    entry,      \* the parser function that was called on it
    tok,        \* the Lookahead object
    ast,        \* what the called function returned (None before that)
    error,      \* the message of the ParserException it raised ("" if none)
    parsing,    \* "off" | "ready" | "returned" | "raised" | "unary_loop"
    optok,      \* parse_unary's t while control is in its loop
    unary_level,\* parse_unary's level while control is in its loop
    tested      \* tokens taken from the Lookahead when the loop last tested it

structVars == <<structs, parsed, scope, idx, result, fresh>>
funcVars == <<funcs, fidx, outcome>>
lexVars == <<src, pos, line, tokens, spans, lexing>>
parseVars == <<input, entry, tok, ast, error, parsing, optok, unary_level, tested>>
vars == <<structVars, funcVars, lexVars, parseVars>>

\* the variables of a component that is not running
StructsOff ==
    /\ structs = <<>> /\ parsed = <<>> /\ scope = {}
    /\ idx = 1 /\ result = "idle" /\ fresh = TRUE
FuncsOff == funcs = <<>> /\ fidx = 1 /\ outcome = "off"
LexerOff ==
    /\ src = <<>> /\ pos = 0 /\ line = 1
    /\ tokens = <<>> /\ spans = <<>> /\ lexing = "off"

----------------------------------------------------------------------------
(* Bounds of the model.                                                    *)

\* the struct names a source unit may declare, in declaration order
StructPool == <<"A", "B">>
\* total number of members declared by the structs of one unit
MaxDecls == 3
\* number of parameters of a function handed to check_funcs
MaxParams == 2
\* length of a source text handed to the tokenizer
MaxSrcLen == 4
\* number of tokens of an expression handed to the parser
MaxExprLen == 5
\* number of statements in a block handed to the parser
MaxBlockLen == 2
\* number of iterations of parse_unary's loop that are followed
MaxLevel == 3

----------------------------------------------------------------------------
(* typecheck.py : data                                                     *)

builtin_types ==
    "u0" :> 0 @@ "u8" :> 1 @@ "u16" :> 2 @@ "u32" :> 4 @@ "u64" :> 8 @@
    "i8" :> 1 @@ "i16" :> 2 @@ "i32" :> 4 @@ "i64" :> 8

pointer_size == 8

\* an attribute (soffset, size) that has not been set on the object
Unset == 0 - 1

\* None
None == [node |-> "None"]

\* the parser has not been started
ParserOff ==
    /\ input = <<>> /\ entry = "none" /\ tok = None /\ ast = None /\ error = ""
    /\ parsing = "off" /\ optok = None /\ unary_level = 0 /\ tested = 0 - 1

\* astnode.py: one constructor per node type (without line)
Type(type, level) == [node |-> "Type", type |-> type, level |-> level]
StructAccess(left, right) == [node |-> "StructAccess", left |-> left, right |-> right]
SLiteral(value) == [node |-> "SLiteral", value |-> value]
Variable(name) == [node |-> "Variable", name |-> name]
ILiteral(value) == [node |-> "ILiteral", value |-> value]
UnaryOp(op, right) == [node |-> "UnaryOp", op |-> op, right |-> right]
PointerOp(op, right, level) ==
    [node |-> "PointerOp", op |-> op, right |-> right, level |-> level]
BinaryOp(op, left, right) ==
    [node |-> "BinaryOp", op |-> op, left |-> left, right |-> right]
Condition(op, left, right) ==
    [node |-> "Condition", op |-> op, left |-> left, right |-> right]
CtrlStatement(op) == [node |-> "CtrlStatement", op |-> op]
RetStatement(value) == [node |-> "RetStatement", value |-> value]
StoreStatement(level, ptr, value) ==
    [node |-> "StoreStatement", level |-> level, ptr |-> ptr, value |-> value]
\* expand_struct later sets the attribute soffset
VarDeclStatement(type, name) ==
    [node |-> "VarDeclStatement", type |-> type, name |-> name, soffset |-> Unset]
StructStoreStatement(struct, value) ==
    [node |-> "StructStoreStatement", struct |-> struct, value |-> value]
AssignStatement(var, value) ==
    [node |-> "AssignStatement", var |-> var, value |-> value]
WhileStatement(cond, stmt) == [node |-> "WhileStatement", cond |-> cond, stmt |-> stmt]
IfStatement(cond, stmt, elsestmt) ==
    [node |-> "IfStatement", cond |-> cond, stmt |-> stmt, elsestmt |-> elsestmt]
BlockStatement(stmts) == [node |-> "BlockStatement", stmts |-> stmts]
FCallStatement(name, args) == [node |-> "FCallStatement", name |-> name, args |-> args]
Func(type, name, args, stmt) ==
    [node |-> "Func", type |-> type, name |-> name, args |-> args, stmt |-> stmt]
\* check_struct later sets the attribute size
Struct(name, decls) ==
    [node |-> "Struct", name |-> name, decls |-> decls, size |-> Unset]

\* a Python tuple (parse_statement returns one for a declaration with an
\* initializer)
Tuple(items) == [node |-> "tuple", items |-> items]

\* struct_dict of check_structs: a later struct of the same name replaces an
\* earlier one; the value is the index of the object in the list
struct_names(heap) == {heap[i].name : i \in DOMAIN heap}

struct_dict(heap, name) ==
    CHOOSE i \in DOMAIN heap :
        /\ heap[i].name = name
        /\ \A j \in DOMAIN heap : heap[j].name = name => j <= i

----------------------------------------------------------------------------
(* typecheck.py : expand_struct, check_struct                              *)

Raise(err, heap, sc) ==
    [err |-> err, size |-> 0, fields |-> <<>>, heap |-> heap, scope |-> sc]

\* the if / elif chain of expand_struct's loop body: which branch takes decl
DeclBranchPointerLast(decl, sc, heap) ==
    IF decl.type.type \in sc THEN "recursive"
    ELSE IF decl.type.level > 0 THEN "pointer"
    ELSE IF decl.type.type \in DOMAIN builtin_types THEN "builtin"
    ELSE IF decl.type.type \in struct_names(heap) THEN "struct"
    ELSE "undefined"

DeclBranch(decl, sc, heap) ==
    IF decl.type.level > 0 THEN "pointer"
    ELSE IF decl.type.type \in sc THEN "recursive"
    ELSE IF decl.type.type \in DOMAIN builtin_types THEN "builtin"
    ELSE IF decl.type.type \in struct_names(heap) THEN "struct"
    ELSE "undefined"

\* for field in fields: field.name = decl.name + "." + field.name
PrefixFieldsForgotten(prefix, fields) == fields

PrefixFields(prefix, fields) ==
    [i \in DOMAIN fields |->
        [fields[i] EXCEPT !.name = prefix \o "." \o fields[i].name]]

RECURSIVE ExpandDecls(_, _, _, _, _, _)
\* the for loop of expand_struct from its k-th iteration on; s is the index of
\* `struct`, sc the shared scope set, heap the Struct objects.  A raise leaves
\* scope.remove undone and keeps every soffset written so far.
ExpandDecls(heap, s, k, sc, size, newdecls) ==
    IF k > Len(heap[s].decls)
    THEN [err |-> "none", size |-> size, fields |-> newdecls, heap |-> heap,
          scope |-> sc \ {heap[s].name}]
    ELSE
      LET h1   == [heap EXCEPT ![s].decls[k].soffset = size]
          decl == h1[s].decls[k]
          br   == DeclBranch(decl, sc, h1)
      IN  CASE br = "pointer" ->
                 ExpandDecls(h1, s, k + 1, sc, size + pointer_size,
                             Append(newdecls, decl))
            [] br = "recursive" ->
                 Raise("recursive struct definition", h1, sc)
            [] br = "builtin" ->
                 ExpandDecls(h1, s, k + 1, sc, size + builtin_types[decl.type.type],
                             Append(newdecls, decl))
            [] br = "struct" ->
                 LET t == struct_dict(h1, decl.type.type)
                     r == ExpandDecls(h1, t, 1, sc \cup {h1[t].name}, size, <<>>)
                 IN  IF r.err # "none" THEN r
                     ELSE ExpandDecls(r.heap, s, k + 1, r.scope, r.size,
                              newdecls \o PrefixFields(decl.name, r.fields))
            \* type_exists(decl) is called with one argument instead of
            \* three: Python raises TypeError before type_exists runs
            [] OTHER -> Raise("TypeError", h1, sc)

expand_struct(heap, s, sc, size) ==
    ExpandDecls(heap, s, 1, sc \cup {heap[s].name}, size, <<>>)

type_exists(typename, heap) ==
    typename \in struct_names(heap) \/ typename \in DOMAIN builtin_types

check_vardecl(decl, heap) == type_exists(decl.type.type, heap)

RECURSIVE CheckMembers(_, _, _, _)
\* the for loop of check_struct from its k-th iteration on
CheckMembers(heap, s, k, names) ==
    IF k > Len(heap[s].decls) THEN "none"
    ELSE LET decl == heap[s].decls[k]
         IN  IF decl.name \in names THEN "defined twice"
             ELSE IF ~check_vardecl(decl, heap) THEN "type not found"
             ELSE CheckMembers(heap, s, k + 1, names \cup {decl.name})

check_struct(heap, s, sc) ==
    LET e == CheckMembers(heap, s, 1, {})
    IN  IF e # "none" THEN Raise(e, heap, sc)
        ELSE LET r == expand_struct(heap, s, sc, 0)
             IN  IF r.err # "none" THEN r
                 ELSE [r EXCEPT !.heap = [r.heap EXCEPT ![s].size = r.size,
                                                        ![s].decls = r.fields]]

----------------------------------------------------------------------------
(* The source units handed to check_structs.                               *)

MemberNames == <<"x", "y", "z", "w", "v", "u">>
Levels == {0, 1}
TypeNames == {"u8", "u16", "Q"} \cup {StructPool[i] : i \in DOMAIN StructPool}

\* the unit of n structs named StructPool[1..n] whose members are, in order,
\* those of the list c of (base type, indirection) pairs: struct i ends at
\* member cut[i].  The members of a struct are named by position, or
\* (repeated) all carry the same name.
Unit(n, cut, c, repeated) ==
    [i \in 1..n |->
        LET from == IF i = 1 THEN 0 ELSE cut[i - 1]
        IN  Struct(StructPool[i],
                   [m \in 1..(cut[i] - from) |->
                       VarDeclStatement(
                           Type(c[from + m][1], c[from + m][2]),
                           IF repeated THEN MemberNames[1] ELSE MemberNames[m])])]

\* the cuts of k members into n structs
Cuts(n, k) ==
    {cut \in [1..n -> 0..k] :
        /\ n > 0 => cut[n] = k
        /\ \A i \in 1..n : i > 1 => cut[i - 1] <= cut[i]}

----------------------------------------------------------------------------
(* typecheck.py : check_structs, one call after another in one process     *)

InitStructs ==
    /\ structs = <<>>
    /\ parsed = <<>>
    /\ scope = {}
    /\ idx = 1
    /\ result = "idle"
    /\ fresh = TRUE
    /\ FuncsOff /\ LexerOff /\ ParserOff

\* check_structs(structs) is called: struct_dict is built, the loop begins
CheckStructs ==
    /\ result = "idle"
    /\ \E n \in 0..Len(StructPool), k \in 0..MaxDecls, repeated \in BOOLEAN :
          /\ n = 0 => k = 0
          /\ \E cut \in Cuts(n, k), c \in [1..k -> TypeNames \X Levels] :
                LET u == Unit(n, cut, c, repeated)
                IN  /\ structs' = u
                    /\ parsed' = u
                    /\ result' = IF n = 0 THEN "ok" ELSE "running"
    /\ idx' = 1
    /\ UNCHANGED <<scope, fresh, funcVars, lexVars, parseVars>>

\* one iteration of check_structs' loop: check(struct, struct_dict)
CheckStruct ==
    /\ result = "running"
    /\ LET r == check_struct(structs, idx, scope)
       IN  /\ structs' = r.heap
           /\ scope' = r.scope
           /\ IF r.err = "none"
              THEN /\ idx' = idx + 1
                   /\ result' = IF idx = Len(structs) THEN "ok" ELSE "running"
              ELSE /\ idx' = idx
                   /\ result' = r.err
    /\ UNCHANGED <<parsed, fresh, funcVars, lexVars, parseVars>>

\* the call has returned or raised and main is done with the unit; the
\* process lives on (the scope object of expand_struct with it)
ReleaseUnit ==
    /\ result \notin {"idle", "running"}
    /\ structs' = <<>>
    /\ parsed' = <<>>
    /\ idx' = 1
    /\ result' = "idle"
    /\ fresh' = FALSE
    /\ UNCHANGED <<scope, funcVars, lexVars, parseVars>>

NextStructs == CheckStructs \/ CheckStruct \/ ReleaseUnit

SpecStructs == InitStructs /\ [][NextStructs]_vars

----------------------------------------------------------------------------
(* typecheck.py : check (singledispatch), check_block, check_func          *)

\* what a handler hands back: the exception it raised ("none": it returned)
\* and the value it returned
Returned(value) == [err |-> "none", ret |-> value]
Raised(err) == [err |-> err, ret |-> None]

\* check_vardecl(decl, structs) as called with nargs arguments after decl
CallCheckVardecl(decl, heap, nargs) ==
    IF nargs # 1 THEN Raised("TypeError")
    ELSE IF check_vardecl(decl, heap) THEN Returned(None)
    ELSE Raised("type not found")

RECURSIVE CheckBlockFrom(_, _, _, _)
\* the for loop of check_block from its k-th statement on.  check(stmt,
\* structs, scope) dispatches on the class of stmt: only BlockStatement and
\* VarDeclStatement have a handler that can be met here, every other node goes
\* to the generic check, which prints and returns None.
CheckBlockFrom(block, heap, k, func_ret) ==
    IF k > Len(block.stmts) THEN Returned(func_ret)
    ELSE LET stmt == block.stmts[k]
             r == CASE stmt.node = "BlockStatement" -> CheckBlockFrom(stmt, heap, 1, None)
                    [] stmt.node = "VarDeclStatement" -> CallCheckVardecl(stmt, heap, 2)
                    [] OTHER -> Returned(None)
         IN  IF r.err # "none" THEN r
             ELSE IF r.ret # None
                  THEN IF func_ret = None
                       THEN CheckBlockFrom(block, heap, k + 1, r.ret)
                       ELSE IF func_ret # r.ret
                       THEN Raised("return type mismatch")
                       ELSE CheckBlockFrom(block, heap, k + 1, func_ret)
                  ELSE CheckBlockFrom(block, heap, k + 1, func_ret)

check_block(block, heap) == CheckBlockFrom(block, heap, 1, None)

\* check(func.stmt, structs)
CheckBody(stmt, heap) ==
    CASE stmt.node = "BlockStatement" -> check_block(stmt, heap)
      [] stmt.node = "VarDeclStatement" -> CallCheckVardecl(stmt, heap, 1)
      [] OTHER -> Returned(None)

RECURSIVE CheckArgs(_, _, _, _)
\* the for loop of check_func from its k-th argument on
CheckArgs(func, heap, k, argnames) ==
    IF k > Len(func.args) THEN "none"
    ELSE LET arg == func.args[k]
         IN  IF arg.name \in argnames THEN "defined twice"
             ELSE IF ~check_vardecl(arg, heap) THEN "type not found"
             ELSE CheckArgs(func, heap, k + 1, argnames \cup {arg.name})

check_func(func, heap) ==
    IF ~type_exists(func.type.type, heap) THEN "type not found"
    ELSE LET e == CheckArgs(func, heap, 1, {})
         IN  IF e # "none" THEN e
             ELSE LET body == CheckBody(func.stmt, heap)
                  IN  IF body.err # "none" THEN body.err
                      \* body_type != func.type
                      ELSE IF body.ret # func.type
                      THEN "return type mismatch or missing return statement"
                      ELSE "none"

----------------------------------------------------------------------------
(* The functions handed to check_funcs.                                    *)

ParamNames == {"x", "y"}
ParamTypes == {Type("u8", 0), Type("u8", 1), Type("Q", 0)}
ReturnTypes == {Type("u8", 0), Type("u8", 1), Type("A", 0), Type("Q", 0)}

Params(n) ==
    {[i \in 1..n |-> VarDeclStatement(t[i], nm[i])] :
        t \in [1..n -> ParamTypes], nm \in [1..n -> ParamNames]}

AnyCondition == Condition("<", Variable("x"), ILiteral(1))
Returns ==
    {RetStatement(Variable(n)) : n \in ParamNames}
        \cup {RetStatement(SLiteral("str"))}
PlainStatements ==
    Returns \cup {VarDeclStatement(Type("u8", 0), "z"),
                  AssignStatement("x", ILiteral(1))}
Statements ==
    PlainStatements
        \cup {BlockStatement(<<st>>) : st \in PlainStatements}
        \cup {IfStatement(AnyCondition, st, None) : st \in Returns}
        \cup {WhileStatement(AnyCondition, st) : st \in Returns}
Bodies ==
    Statements
        \cup {BlockStatement(ss) :
                ss \in UNION {[1..n -> Statements] : n \in {0, 2}}}
        \cup {Tuple(<<VarDeclStatement(Type("u8", 0), "z"),
                      AssignStatement("z", ILiteral(1))>>)}

\* the struct_dict check_structs returned: no struct, or the checked struct A {}
KnownStructs == {<<>>, <<[Struct("A", <<>>) EXCEPT !.size = 0]>>}

----------------------------------------------------------------------------
(* typecheck.py : check_funcs                                              *)

InitFuncs ==
    /\ structs \in KnownStructs
    /\ parsed = structs
    /\ scope = {}
    /\ idx = Len(structs) + 1
    /\ result = "ok"
    /\ fresh = TRUE
    /\ \E rt \in ReturnTypes, n \in 0..MaxParams, more \in BOOLEAN :
         \E args \in Params(n), body \in Bodies :
            funcs = <<Func(rt, "f", args, body)>>
                      \o (IF more THEN <<Func(Type("u0", 0), "g", <<>>,
                                              BlockStatement(<<>>))>>
                          ELSE <<>>)
    /\ fidx = 1
    /\ outcome = "running"
    /\ LexerOff /\ ParserOff

\* one iteration of check_funcs' loop: check(func, funcs, structs)
CheckFunc ==
    /\ outcome = "running"
    /\ LET e == check_func(funcs[fidx], structs)
       IN  IF e = "none"
           THEN /\ fidx' = fidx + 1
                /\ outcome' = IF fidx = Len(funcs) THEN "ok" ELSE "running"
           ELSE /\ fidx' = fidx
                /\ outcome' = e
    /\ UNCHANGED <<structVars, funcs, lexVars, parseVars>>

NextFuncs == CheckFunc

SpecFuncs == InitFuncs /\ [][NextFuncs]_vars

----------------------------------------------------------------------------
(* lexer.py : the pattern built by Lexer.__init__ from main.userdefined     *)

\* main.userdefined["atom"], each literal as its sequence of characters.
\* The adjacent literals ">" "<=" of main.py are one literal, "><=".
AtomKeywords ==
    << <<"w","h","i","l","e">>, <<"i","f">>, <<"e","l","s","e">>,
       <<"r","e","t","u","r","n">>, <<"s","t","r","u","c","t">>,
       <<"s","i","z","e","o","f">> >>
AtomOperators ==
    << <<">",">",">">>, <<">",">">>, <<"<","<">>, <<"<">>, <<">","<","=">>,
       <<">","=">>, <<"!","=">>, <<"=","=">> >>
AtomCharacters ==
    << <<"(">>, <<")">>, <<"{">>, <<"}">>, <<"*">>, <<"/">>, <<"+">>, <<"-">>,
       <<"~">>, <<"|">>, <<"&">>, <<"^">>, <<"=">>, <<"<">>, <<">">>, <<",">>,
       <<".">>, <<";">> >>
userdefined_atom == AtomKeywords \o AtomOperators \o AtomCharacters

Digits == {"0", "1", "2", "3", "4", "5", "6", "7", "8", "9"}
HexDigits ==
    Digits \cup {"a", "b", "c", "d", "e", "f", "A", "B", "C", "D", "E", "F"}
Letters ==
    {"a", "b", "c", "d", "e", "f", "g", "h", "i", "j", "k", "l", "m", "n", "o",
     "p", "q", "r", "s", "t", "u", "v", "w", "x", "y", "z",
     "A", "B", "C", "D", "E", "F", "G", "H", "I", "J", "K", "L", "M", "N", "O",
     "P", "Q", "R", "S", "T", "U", "V", "W", "X", "Y", "Z"}
\* \w, \s of the re module (on the ASCII characters).  For a str pattern \s
\* is str.isspace: blank, \t, \n, \r, \f, the vertical tab (0x0B) and the
\* four separators 0x1C..0x1F, which stand here as the characters themselves
WordChars == Letters \cup Digits \cup {"_"}
SpaceChars == {" ", "\t", "\n", "\r", "\f", "", "", "", "", ""}

\* the character at Python index i of text, "" past its end
CharAt(text, i) == IF i + 1 \in DOMAIN text THEN text[i + 1] ELSE ""

\* (?=\W): a character follows and it is not a word character
NonWordFollows(text, i) == i < Len(text) /\ CharAt(text, i) \notin WordChars

RECURSIVE RunEnd(_, _, _)
\* the end of the longest run of characters of class cls that starts at i
RunEnd(text, i, cls) ==
    IF CharAt(text, i) \in cls THEN RunEnd(text, i + 1, cls) ELSE i

RECURSIVE LineEnd(_, _)
\* [^\n]* \n from i: the index after the newline, or -1 when no newline follows
LineEnd(text, i) ==
    IF i >= Len(text) THEN 0 - 1
    ELSE IF CharAt(text, i) = "\n" THEN i + 1
    ELSE LineEnd(text, i + 1)

RECURSIVE SkipComments(_, _)
\* (?: [#] [^\n]* \n \s*)*  from i
SkipComments(text, i) ==
    IF CharAt(text, i) = "#" /\ LineEnd(text, i + 1) >= 0
    THEN SkipComments(text, RunEnd(text, LineEnd(text, i + 1), SpaceChars))
    ELSE i

\* where the token group begins when the pattern is matched at position i
TokenStart(text, i) == SkipComments(text, RunEnd(text, i, SpaceChars))

RECURSIVE StrBodyEnd(_, _)
\* (\\.|[^\\\"])*\" from i: the index after the closing quote, or -1
StrBodyEnd(text, i) ==
    IF i >= Len(text) THEN 0 - 1
    ELSE IF CharAt(text, i) = "\"" THEN i + 1
    ELSE IF CharAt(text, i) = "\\"
         THEN IF i + 1 < Len(text) /\ CharAt(text, i + 1) # "\n"
              THEN StrBodyEnd(text, i + 2) ELSE 0 - 1
    ELSE StrBodyEnd(text, i + 1)

IsPrefixAt(lit, text, i) ==
    /\ i + Len(lit) <= Len(text)
    /\ \A k \in DOMAIN lit : text[i + k] = lit[k]

\* the alternatives of the token group, in the order of the pattern; each
\* gives the index after its match, or -1 when it does not match at i
MatchStr(text, i) ==
    IF CharAt(text, i) = "\"" /\ StrBodyEnd(text, i + 1) >= 0
          /\ NonWordFollows(text, StrBodyEnd(text, i + 1))
    THEN StrBodyEnd(text, i + 1) ELSE 0 - 1

MatchHex(text, i) ==
    LET e == RunEnd(text, i + 2, HexDigits)
    IN  IF CharAt(text, i) = "0" /\ CharAt(text, i + 1) = "x" /\ e > i + 2
              /\ NonWordFollows(text, e)
        THEN e ELSE 0 - 1

MatchInt(text, i) ==
    LET e == RunEnd(text, i, Digits)
    IN  IF e > i /\ NonWordFollows(text, e) THEN e ELSE 0 - 1

\* the first literal of the alternation that matches at i (0: none does)
FirstAtom(atoms, text, i) ==
    IF \E k \in DOMAIN atoms : IsPrefixAt(atoms[k], text, i)
    THEN CHOOSE k \in DOMAIN atoms :
            /\ IsPrefixAt(atoms[k], text, i)
            /\ \A j \in DOMAIN atoms : IsPrefixAt(atoms[j], text, i) => k <= j
    ELSE 0

MatchAtom(text, i) ==
    LET k == FirstAtom(userdefined_atom, text, i)
    IN  IF k = 0 THEN 0 - 1 ELSE i + Len(userdefined_atom[k])

MatchId(text, i) ==
    IF CharAt(text, i) \in Letters \cup {"_"}
    THEN RunEnd(text, i + 1, WordChars) ELSE 0 - 1

\* pattern.match(src, pos): the named group that matched and the span of the
\* token group (group "none": no match)
Match(text, i) ==
    LET b == TokenStart(text, i)
    IN  CASE MatchStr(text, b) >= 0 ->
               [group |-> "str", start |-> b, end |-> MatchStr(text, b)]
          [] MatchHex(text, b) >= 0 ->
               [group |-> "hex", start |-> b, end |-> MatchHex(text, b)]
          [] MatchInt(text, b) >= 0 ->
               [group |-> "int", start |-> b, end |-> MatchInt(text, b)]
          [] MatchAtom(text, b) >= 0 ->
               [group |-> "atom", start |-> b, end |-> MatchAtom(text, b)]
          [] MatchId(text, b) >= 0 ->
               [group |-> "id", start |-> b, end |-> MatchId(text, b)]
          [] OTHER -> [group |-> "none", start |-> b, end |-> b]

RECURSIVE Text(_, _, _)
\* src[a:b] as a string
Text(text, a, b) ==
    IF a >= b THEN "" ELSE CharAt(text, a) \o Text(text, a + 1, b)

RECURSIVE CountNewlines(_, _, _)
CountNewlines(text, a, b) ==
    IF a >= b THEN 0
    ELSE (IF CharAt(text, a) = "\n" THEN 1 ELSE 0) + CountNewlines(text, a + 1, b)

DigitValue(c) ==
    CASE c \in Digits -> CHOOSE n \in 0..9 : ToString(n) = c
      [] c \in {"a", "A"} -> 10 [] c \in {"b", "B"} -> 11
      [] c \in {"c", "C"} -> 12 [] c \in {"d", "D"} -> 13
      [] c \in {"e", "E"} -> 14 [] c \in {"f", "F"} -> 15

RECURSIVE IntValue(_, _, _, _)
\* int(src[a:b], base)
IntValue(text, a, b, base) ==
    IF a >= b THEN 0
    ELSE IntValue(text, a, b - 1, base) * base + DigitValue(CharAt(text, b - 1))

\* lexer.Token
Token(type, value, ln) == [type |-> type, value |-> value, line |-> ln]

\* the token tokenize yields for match m ("fix some names")
TokenOf(text, m, ln) ==
    CASE m.group = "hex" ->
           Token("int", IntValue(text, m.start + 2, m.end, 16), ln)
      [] m.group = "int" ->
           Token("int", IntValue(text, m.start, m.end, 10), ln)
      [] m.group = "atom" ->
           Token(Text(text, m.start, m.end), Text(text, m.start, m.end), ln)
      [] OTHER ->
           Token(m.group, Text(text, m.start, m.end), ln)

----------------------------------------------------------------------------
(* lexer.py : tokenize                                                     *)

\* the last one is the vertical tab
SrcChars == {"i", "f", "x", "1", "<", ">", "=", " ", "\n", "#", ""}

InitLexer ==
    /\ StructsOff /\ FuncsOff /\ ParserOff
    /\ src \in UNION {[1..n -> SrcChars] : n \in 0..MaxSrcLen}
    /\ pos = 0
    /\ line = 1
    /\ tokens = <<>>
    /\ spans = <<>>
    /\ lexing = "running"

\* one iteration of tokenize's loop in which the pattern matches: a token is
\* yielded
YieldToken ==
    /\ lexing = "running"
    /\ LET m == Match(src, pos)
           ln == line + CountNewlines(src, pos, m.end)
       IN  /\ m.group # "none"
           /\ pos' = m.end
           /\ line' = ln
           /\ tokens' = Append(tokens, TokenOf(src, m, ln))
           /\ spans' = Append(spans, [start |-> m.start, end |-> m.end])
    /\ UNCHANGED <<src, lexing, structVars, funcVars, parseVars>>

\* the pattern does not match at pos: the loop is left, the generator ends
EndTokens ==
    /\ lexing = "running"
    /\ Match(src, pos).group = "none"
    /\ lexing' = "done"
    /\ UNCHANGED <<src, pos, line, tokens, spans, structVars, funcVars, parseVars>>

NextLexer == YieldToken \/ EndTokens

SpecLexer == InitLexer /\ [][NextLexer]_vars

----------------------------------------------------------------------------
(* parser.py : Lookahead, expect                                           *)

\* the default token of parse
eof == Token("eof", None, 0 - 1)

\* next(gen, default)
NextOf(gen, default) == IF gen = <<>> THEN default ELSE Head(gen)
RestOf(gen) == IF gen = <<>> THEN <<>> ELSE Tail(gen)

\* Lookahead.__init__; taken counts the tokens handed out by next
Lookahead(gen, default) ==
    [peek |-> NextOf(gen, default), gen |-> RestOf(gen), default |-> default,
     taken |-> 0]

\* How a parser function ends: it returns a value, it raises a
\* ParserException, or control stays in the loop of parse_unary, whose test
\* (tok.peek == t) holds and whose body changes neither tok nor t.
Return(value, lk) == [how |-> "return", value |-> value, tok |-> lk]
ParserException(msg, lk) == [how |-> "raise", value |-> msg, tok |-> lk]
InUnaryLoop(t, lk) == [how |-> "loop", value |-> t, tok |-> lk]

\* Lookahead.next (count = 1): returns the old peek
next(lk) ==
    Return(lk.peek, [lk EXCEPT !.peek = NextOf(lk.gen, lk.default),
                               !.gen = RestOf(lk.gen),
                               !.taken = @ + 1])

RECURSIVE JoinOr(_)
\* " or ".join(expects)
JoinOr(expects) ==
    IF Len(expects) = 1 THEN expects[1]
    ELSE expects[1] \o " or " \o JoinOr(Tail(expects))

\* Token.__eq__ against a string: the types are compared
expect(lk, expects) ==
    LET t == next(lk)
    IN  IF \E k \in DOMAIN expects : t.value.type = expects[k] THEN t
        ELSE ParserException("expected " \o JoinOr(expects), t.tok)

----------------------------------------------------------------------------
(* parser.py : declarations and expressions                                *)

\* Sequencing: r is evaluated; a return is handed to the rest of the function
\* body, K, and any other end (an exception) is the end of the function.
Then(r, K(_)) ==
    CHOOSE out \in { IF x.how = "return" THEN K(x) ELSE x : x \in {r} } : TRUE

RECURSIVE PointerLevel(_, _)
\* while tok.peek == "*": ptr_level += 1; tok.next()
PointerLevel(lk, ptr_level) ==
    IF lk.peek.type = "*" THEN PointerLevel(next(lk).tok, ptr_level + 1)
    ELSE Return(ptr_level, lk)

\* returns the pair (Type, name)
parse_vardecl(lk, t) ==
    Then(IF t = None THEN expect(lk, <<"id">>) ELSE Return(t, lk), LAMBDA first :
    Then(PointerLevel(first.tok, 0), LAMBDA stars :
    Then(expect(stars.tok, <<"id">>), LAMBDA name :
    Return(<<Type(first.value.value, stars.value), name.value.value>>, name.tok))))

RECURSIVE StructAccessLoop(_, _, _)
StructAccessLoop(lk, t, ret) ==
    IF lk.peek.type # "." THEN Return(ret, lk)
    ELSE Then(expect(next(lk).tok, <<"id">>), LAMBDA n :
         StructAccessLoop(n.tok, t,
             IF ret = None THEN StructAccess(t.value, n.value.value)
             ELSE StructAccess(ret, n.value.value)))

parse_struct_access(lk, t) == StructAccessLoop(lk, t, None)

\* The parser functions call one another, and their loops iterate, through
\* Parser(name, tok, arg): the call of the function or loop called name
\* (defined below, after them).
RECURSIVE Parser(_, _, _)

\* the loop of parse_fcall: arguments separated by "," up to ")"
FCallArgs(lk, arglist) ==
    Then(Parser("parse_expression", lk, None), LAMBDA arg :
    Then(expect(arg.tok, <<")", ",">>), LAMBDA sep :
    IF sep.value.type = ")" THEN Return(Append(arglist, arg.value), sep.tok)
    ELSE Parser("FCallArgs", sep.tok, Append(arglist, arg.value))))

\* an empty argument list leaves the ")" in the Lookahead
parse_fcall(lk, t) ==
    Then(next(lk), LAMBDA open :
    Then(IF open.tok.peek.type # ")" THEN Parser("FCallArgs", open.tok, <<>>)
         ELSE Return(<<>>, open.tok), LAMBDA args :
    Return(FCallStatement(t.value, args.value), args.tok)))

parse_factor(lk) ==
    Then(next(lk), LAMBDA t :
    CASE t.value.type = "(" ->
           Then(Parser("parse_expression", t.tok, None), LAMBDA expr :
           Then(expect(expr.tok, <<")">>), LAMBDA close :
           Return(expr.value, close.tok)))
      [] t.value.type = "int" -> Return(ILiteral(t.value.value), t.tok)
      [] t.value.type = "id" ->
           IF t.tok.peek.type = "(" THEN Parser("parse_fcall", t.tok, t.value)
           ELSE IF t.tok.peek.type = "." THEN parse_struct_access(t.tok, t.value)
           ELSE Return(Variable(t.value.value), t.tok)
      [] t.value.type = "str" -> Return(SLiteral(t.value.value), t.tok)
      [] OTHER -> ParserException("expected a factor", t.tok))

\* parse_unary from the end of its loop on
UnaryOperand(lk, t, lvl) ==
    IF t.type \in {"-", "~"} /\ lvl % 2 = 0 THEN Parser("parse_factor", lk, None)
    ELSE Then(Parser("parse_factor", lk, None), LAMBDA factor :
         IF t.type \in {"*", "&", "sizeof"}
         THEN Return(PointerOp(t.type, factor.value, lvl), factor.tok)
         ELSE Return(UnaryOp(t.type, factor.value), factor.tok))

\* The loop (while tok.peek == t) raises in its first iteration for sizeof;
\* for the other operators its body is level += 1 alone.
parse_unary(lk) ==
    IF lk.peek.type \notin {"-", "~", "*", "&", "sizeof"}
    THEN Parser("parse_factor", lk, None)
    ELSE Then(next(lk), LAMBDA t :
         IF t.tok.peek.type = t.value.type
         THEN IF t.value.type = "sizeof"
              THEN ParserException("sizeof sizeof not supported", t.tok)
              ELSE InUnaryLoop(t.value, t.tok)
         ELSE UnaryOperand(t.tok, t.value, 1))

BitwiseLoop(ret, lk) ==
    IF lk.peek.type \notin {"&", "|", "^"} THEN Return(ret, lk)
    ELSE Then(next(lk), LAMBDA t :
         Then(Parser("parse_unary", t.tok, None), LAMBDA right :
         Parser("BitwiseLoop", right.tok, BinaryOp(t.value.type, ret, right.value))))

parse_bitwise(lk) ==
    Then(Parser("parse_unary", lk, None), LAMBDA ret :
    Parser("BitwiseLoop", ret.tok, ret.value))

ShiftLoop(ret, lk) ==
    IF lk.peek.type \notin {">>>", ">>", "<<"} THEN Return(ret, lk)
    ELSE Then(next(lk), LAMBDA t :
         Then(Parser("parse_unary", t.tok, None), LAMBDA right :
         Parser("ShiftLoop", right.tok, BinaryOp(t.value.type, ret, right.value))))

parse_shift(lk) ==
    Then(Parser("parse_bitwise", lk, None), LAMBDA ret :
    Parser("ShiftLoop", ret.tok, ret.value))

MultLoop(ret, lk) ==
    IF lk.peek.type \notin {"*", "/"} THEN Return(ret, lk)
    ELSE Then(next(lk), LAMBDA t :
         Then(Parser("parse_shift", t.tok, None), LAMBDA right :
         Parser("MultLoop", right.tok, BinaryOp(t.value.type, ret, right.value))))

parse_mult(lk) ==
    Then(Parser("parse_shift", lk, None), LAMBDA ret :
    Parser("MultLoop", ret.tok, ret.value))

ExpressionLoop(ret, lk) ==
    IF lk.peek.type \notin {"+", "-"} THEN Return(ret, lk)
    ELSE Then(next(lk), LAMBDA t :
         Then(Parser("parse_mult", t.tok, None), LAMBDA right :
         Parser("ExpressionLoop", right.tok,
              BinaryOp(t.value.type, ret, right.value))))

parse_expression(lk) ==
    Then(Parser("parse_mult", lk, None), LAMBDA ret :
    Parser("ExpressionLoop", ret.tok, ret.value))

parse_condition(lk) ==
    Then(Parser("parse_expression", lk, None), LAMBDA left :
    Then(expect(left.tok, <<"==", "!=", "<=", ">=", "<", ">">>), LAMBDA op :
    Then(Parser("parse_expression", op.tok, None), LAMBDA right :
    Return(Condition(op.value.type, left.value, right.value), right.tok))))

----------------------------------------------------------------------------
(* parser.py : statements                                                  *)

\* a statement that is a tuple extends the list, any other is appended
BlockLoop(lk, stmt_list) ==
    IF lk.peek.type = "}" THEN Return(stmt_list, next(lk).tok)
    ELSE Then(Parser("parse_statement", lk, None), LAMBDA s :
         IF s.value.node = "tuple"
         THEN Parser("BlockLoop", s.tok, stmt_list \o s.value.items)
         ELSE Parser("BlockLoop", s.tok, Append(stmt_list, s.value)))

parse_block(lk) ==
    Then(expect(lk, <<"{">>), LAMBDA t :
    Then(Parser("BlockLoop", t.tok, <<>>), LAMBDA stmts :
    Return(BlockStatement(stmts.value), stmts.tok)))

\* the else token is tested, and the statement is parsed from it
parse_if(lk) ==
    Then(expect(lk, <<"if">>), LAMBDA t :
    Then(Parser("parse_condition", t.tok, None), LAMBDA cond :
    Then(Parser("parse_statement", cond.tok, None), LAMBDA body :
    IF body.tok.peek.type = "else"
    THEN Then(Parser("parse_statement", body.tok, None), LAMBDA else_body :
         Return(IfStatement(cond.value, body.value, else_body.value),
                else_body.tok))
    ELSE Return(IfStatement(cond.value, body.value, None), body.tok))))

parse_while(lk) ==
    Then(expect(lk, <<"while">>), LAMBDA t :
    Then(Parser("parse_condition", t.tok, None), LAMBDA cond :
    Then(Parser("parse_statement", cond.tok, None), LAMBDA body :
    Return(WhileStatement(cond.value, body.value), body.tok))))

\* break and continue
ParseCtrl(lk, op) ==
    Then(next(lk), LAMBDA t :
    Then(expect(t.tok, <<";">>), LAMBDA semi :
    Return(CtrlStatement(op), semi.tok)))

ParseReturn(lk) ==
    Then(next(lk), LAMBDA t :
    Then(Parser("parse_expression", t.tok, None), LAMBDA expr :
    Then(expect(expr.tok, <<";">>), LAMBDA semi :
    Return(RetStatement(expr.value), semi.tok))))

\* memory store
ParseStore(lk) ==
    Then(PointerLevel(lk, 0), LAMBDA stars :
    Then(Parser("parse_factor", stars.tok, None), LAMBDA factor :
    Then(expect(factor.tok, <<"=">>), LAMBDA t :
    Then(Parser("parse_expression", t.tok, None), LAMBDA expr :
    Then(expect(expr.tok, <<";">>), LAMBDA semi :
    Return(StoreStatement(stars.value, factor.value, expr.value), semi.tok))))))

\* variable declaration: with an initializer the pair (decl, assign) is
\* returned
ParseDeclaration(lk, i) ==
    Then(parse_vardecl(lk, i), LAMBDA decl :
    Then(IF decl.tok.peek.type = "="
         THEN Then(next(decl.tok), LAMBDA eq :
              Then(Parser("parse_expression", eq.tok, None), LAMBDA init :
              Return(AssignStatement(decl.value[2], init.value), init.tok)))
         ELSE Return(None, decl.tok), LAMBDA assign :
    Then(expect(assign.tok, <<";">>), LAMBDA semi :
    IF assign.value # None
    THEN Return(Tuple(<<VarDeclStatement(decl.value[1], decl.value[2]),
                        assign.value>>), semi.tok)
    ELSE Return(VarDeclStatement(decl.value[1], decl.value[2]), semi.tok))))

ParseCall(lk, i) ==
    Then(Parser("parse_fcall", lk, i), LAMBDA f :
    Then(expect(f.tok, <<";">>), LAMBDA semi :
    Return(f.value, semi.tok)))

\* assignment or error
ParseAssignment(lk, i) ==
    Then(IF lk.peek.type = "." THEN parse_struct_access(lk, i)
         ELSE Return(i.value, lk), LAMBDA s :
    Then(expect(s.tok, <<"=">>), LAMBDA t :
    Then(Parser("parse_expression", t.tok, None), LAMBDA expr :
    Then(expect(expr.tok, <<";">>), LAMBDA semi :
    IF lk.peek.type = "."
    THEN Return(StructStoreStatement(s.value, expr.value), semi.tok)
    ELSE Return(AssignStatement(s.value, expr.value), semi.tok)))))

parse_statement(lk) ==
    CASE lk.peek.type = "{" -> Parser("parse_block", lk, None)
      [] lk.peek.type = "if" -> Parser("parse_if", lk, None)
      [] lk.peek.type = "while" -> Parser("parse_while", lk, None)
      [] lk.peek.type = "break" -> ParseCtrl(lk, "break")
      [] lk.peek.type = "continue" -> ParseCtrl(lk, "cont")
      [] lk.peek.type = "return" -> ParseReturn(lk)
      [] lk.peek.type = "*" -> ParseStore(lk)
      [] OTHER ->
           Then(expect(lk, <<"id">>), LAMBDA i :
           IF i.tok.peek.type \in {"id", "*"}
           THEN ParseDeclaration(i.tok, i.value)
           ELSE IF i.tok.peek.type = "(" THEN ParseCall(i.tok, i.value)
           ELSE ParseAssignment(i.tok, i.value))

\* the functions and loops that are called by name
Parser(name, lk, arg) ==
    CHOOSE out \in {
        CASE name = "parse_expression" -> parse_expression(l)
          [] name = "ExpressionLoop" -> ExpressionLoop(a, l)
          [] name = "parse_mult" -> parse_mult(l)
          [] name = "MultLoop" -> MultLoop(a, l)
          [] name = "parse_shift" -> parse_shift(l)
          [] name = "ShiftLoop" -> ShiftLoop(a, l)
          [] name = "parse_bitwise" -> parse_bitwise(l)
          [] name = "BitwiseLoop" -> BitwiseLoop(a, l)
          [] name = "parse_unary" -> parse_unary(l)
          [] name = "parse_factor" -> parse_factor(l)
          [] name = "parse_fcall" -> parse_fcall(l, a)
          [] name = "FCallArgs" -> FCallArgs(l, a)
          [] name = "parse_condition" -> parse_condition(l)
          [] name = "parse_statement" -> parse_statement(l)
          [] name = "parse_block" -> parse_block(l)
          [] name = "BlockLoop" -> BlockLoop(l, a)
          [] name = "parse_if" -> parse_if(l)
          [] name = "parse_while" -> parse_while(l)
        : l \in {lk}, a \in {arg} } : TRUE

----------------------------------------------------------------------------
(* parser.py : the program                                                 *)

RECURSIVE StructMembers(_, _)
StructMembers(lk, decllist) ==
    IF lk.peek.type # "id" THEN Return(decllist, lk)
    ELSE Then(parse_vardecl(lk, None), LAMBDA member :
         Then(expect(member.tok, <<";">>), LAMBDA semi :
         StructMembers(semi.tok,
             Append(decllist, VarDeclStatement(member.value[1], member.value[2])))))

parse_struct(lk) ==
    Then(expect(lk, <<"struct">>), LAMBDA t :
    Then(expect(t.tok, <<"id">>), LAMBDA name :
    Then(expect(name.tok, <<"{">>), LAMBDA open :
    Then(StructMembers(open.tok, <<>>), LAMBDA decls :
    Then(expect(decls.tok, <<"}">>), LAMBDA close :
    Return(Struct(name.value.value, decls.value), close.tok))))))

RECURSIVE FunctionArgs(_, _)
\* the while True loop of parse_function; returns (arglist, name), name being
\* the variable the loop assigns last
FunctionArgs(lk, arglist) ==
    Then(parse_vardecl(lk, None), LAMBDA arg :
    Then(expect(arg.tok, <<",", ")">>), LAMBDA sep :
    IF sep.value.type = ")"
    THEN Return(<<Append(arglist, VarDeclStatement(arg.value[1], arg.value[2])),
                  arg.value[2]>>, sep.tok)
    ELSE FunctionArgs(sep.tok,
             Append(arglist, VarDeclStatement(arg.value[1], arg.value[2])))))

\* type, name = parse_vardecl(tok) in the loop assigns the variable name that
\* holds the function's name
parse_function(lk) ==
    Then(parse_vardecl(lk, None), LAMBDA head :
    Then(expect(head.tok, <<"(">>), LAMBDA t :
    Then(IF t.tok.peek.type # ")" THEN FunctionArgs(t.tok, <<>>)
         ELSE Return(<<<<>>, head.value[2]>>, next(t.tok).tok), LAMBDA args :
    Then(Parser("parse_statement", args.tok, None), LAMBDA stmt :
    Return(Func(head.value[1], args.value[2], args.value[1], stmt.value),
           stmt.tok)))))

RECURSIVE ProgramLoop(_, _, _)
ProgramLoop(lk, funs, strs) ==
    IF lk.peek.type = "eof" THEN Return(<<funs, strs>>, lk)
    ELSE IF lk.peek.type = "struct"
         THEN Then(parse_struct(lk), LAMBDA s :
              ProgramLoop(s.tok, funs, Append(strs, s.value)))
         ELSE Then(parse_function(lk), LAMBDA f :
              ProgramLoop(f.tok, Append(funs, f.value), strs))

\* returns the pair (funcs, structs)
parse_program(lk) == ProgramLoop(lk, <<>>, <<>>)

parse(toks) == parse_program(Lookahead(toks, eof))

----------------------------------------------------------------------------
(* parser.py : calls of the parser functions                               *)

\* tokens as the tokenizer makes them
Id(name) == Token("id", name, 1)
Atom(a) == Token(a, a, 1)

\* the parser is ready to be called on the token sequence toks
Ready(toks) ==
    /\ StructsOff /\ FuncsOff /\ LexerOff
    /\ input = toks
    /\ entry = "none"
    /\ tok = Lookahead(toks, eof)
    /\ ast = None
    /\ error = ""
    /\ parsing = "ready"
    /\ optok = None
    /\ unary_level = 0
    /\ tested = 0 - 1

\* the function called name has run on tok and ended as r says
Called(name, r) ==
    /\ parsing = "ready"
    /\ entry' = name
    /\ tok' = r.tok
    /\ parsing' = CASE r.how = "return" -> "returned"
                    [] r.how = "raise" -> "raised"
                    [] OTHER -> "unary_loop"
    /\ ast' = IF r.how = "return" THEN r.value ELSE None
    /\ error' = IF r.how = "raise" THEN r.value ELSE ""
    /\ optok' = IF r.how = "loop" THEN r.value ELSE None
    /\ unary_level' = IF r.how = "loop" THEN 1 ELSE 0
    /\ tested' = 0 - 1
    /\ UNCHANGED <<input, structVars, funcVars, lexVars>>

CallParseUnary == Called("parse_unary", Parser("parse_unary", tok, None))
CallParseExpression ==
    Called("parse_expression", Parser("parse_expression", tok, None))
CallParseStatement ==
    Called("parse_statement", Parser("parse_statement", tok, None))
CallParseFunction == Called("parse_function", parse_function(tok))
CallParse == Called("parse", parse(input))

\* one iteration of the loop of parse_unary (t is not sizeof): the test held,
\* the body adds one to level, and the test is made again
UnaryLoop ==
    /\ parsing = "unary_loop"
    /\ tok.peek.type = optok.type
    /\ unary_level < MaxLevel
    /\ unary_level' = unary_level + 1
    /\ tested' = tok.taken
    /\ UNCHANGED <<input, entry, tok, ast, error, parsing, optok,
                   structVars, funcVars, lexVars>>

\* ---- expressions
ExprTokens ==
    {Id("a"), Id("b"), Atom("-"), Atom("~"), Atom("*"), Atom("<<"), Atom("&"),
     Atom("+"), Atom("("), Atom(")")}

InitExpr == \E n \in 0..MaxExprLen : \E toks \in [1..n -> ExprTokens] : Ready(toks)

NextExpr == CallParseUnary \/ CallParseExpression \/ UnaryLoop

SpecExpr == InitExpr /\ [][NextExpr]_vars

\* ---- statements
RECURSIVE Flatten(_)
Flatten(seqs) == IF seqs = <<>> THEN <<>> ELSE Head(seqs) \o Flatten(Tail(seqs))

SimpleStatements ==
    { <<Id("x"), Atom("="), Id("a"), Atom(";")>>,
      <<Id("u8"), Id("x"), Atom(";")>>,
      <<Id("u8"), Id("x"), Atom("="), Id("a"), Atom(";")>>,
      <<Atom("return"), Id("x"), Atom(";")>>,
      <<Atom("return"), Atom("-"), Atom("-"), Id("x"), Atom(";")>>,
      <<Atom("*"), Id("x"), Atom("="), Id("a"), Atom(";")>>,
      <<Id("f"), Atom("("), Id("a"), Atom(")"), Atom(";")>>,
      <<Id("x"), Atom("."), Id("y"), Atom("="), Id("a"), Atom(";")>> }

Blocks ==
    { <<Atom("{")>> \o Flatten(b) \o <<Atom("}")>> :
        b \in UNION {[1..n -> SimpleStatements] : n \in 0..MaxBlockLen} }

Conditions == { <<Id("a"), Atom("<"), Id("b")>> }

Bodies1 == SimpleStatements \cup Blocks

StatementInputs ==
    Bodies1
    \cup { <<Atom("if")>> \o c \o b : c \in Conditions, b \in Bodies1 }
    \cup { <<Atom("if")>> \o c \o b \o <<Atom("else")>> \o e :
             c \in Conditions, b \in Bodies1, e \in SimpleStatements }
    \cup { <<Atom("while")>> \o c \o b : c \in Conditions, b \in Bodies1 }

\* a statement, or the beginning of one
InitStmt ==
    \E full \in StatementInputs : \E n \in 0..Len(full) : Ready(SubSeq(full, 1, n))

NextStmt == CallParseStatement \/ UnaryLoop

SpecStmt == InitStmt /\ [][NextStmt]_vars

\* ---- programs
ParamDecls ==
    { <<Id("u8"), Id("x")>>, <<Id("u8"), Atom("*"), Id("y")>>, <<Id("A"), Id("z")>> }

RECURSIVE CommaSeparated(_)
CommaSeparated(decls) ==
    IF Len(decls) <= 1 THEN Flatten(decls)
    ELSE Head(decls) \o <<Atom(",")>> \o CommaSeparated(Tail(decls))

ParamLists ==
    { CommaSeparated(d) : d \in UNION {[1..n -> ParamDecls] : n \in 0..MaxParams} }

FunctionBodies ==
    SimpleStatements
    \cup { <<Atom("{"), Atom("}")>>,
           <<Atom("{"), Atom("return"), Id("x"), Atom(";"), Atom("}")>> }

FunctionInputs ==
    { <<Id("u8"), Id("f"), Atom("(")>> \o ps \o <<Atom(")")>> \o b :
        ps \in ParamLists, b \in FunctionBodies }

StructInputs ==
    { <<Atom("struct"), Id("A"), Atom("{")>> \o Flatten(m) \o <<Atom("}")>> :
        m \in UNION {[1..n -> { <<Id("u8"), Id("x"), Atom(";")>>,
                               <<Id("A"), Atom("*"), Id("y"), Atom(";")>> }] :
                     n \in 0..MaxDecls} }

ProgramInputs ==
    FunctionInputs \cup StructInputs
    \cup { st \o f : st \in StructInputs, f \in FunctionInputs }

\* a program, or the beginning of one
InitParse ==
    \E full \in ProgramInputs : \E n \in 0..Len(full) : Ready(SubSeq(full, 1, n))

NextParse == CallParse \/ CallParseFunction \/ UnaryLoop

SpecParse == InitParse /\ [][NextParse]_vars

----------------------------------------------------------------------------
(* Claims about check_structs.                                             *)

\* the structs that struct i of unit u holds by value (indirection 0)
ByValue(u, i) ==
    {struct_dict(u, u[i].decls[k].type.type) :
        k \in {k \in DOMAIN u[i].decls :
                 /\ u[i].decls[k].type.level = 0
                 /\ u[i].decls[k].type.type \in struct_names(u)}}

RECURSIVE Closure(_, _, _)
Closure(u, S, n) ==
    IF n = 0 THEN S
    ELSE Closure(u, S \cup UNION {ByValue(u, i) : i \in S}, n - 1)

\* struct i contains itself by value, directly or through a chain
ContainsItself(u, i) == i \in Closure(u, ByValue(u, i), Len(u))

Acyclic(u) == \A i \in DOMAIN u : ~ContainsItself(u, i)

DistinctMembers(u) ==
    \A i \in DOMAIN u : \A k, l \in DOMAIN u[i].decls :
        u[i].decls[k].name = u[i].decls[l].name => k = l

AllDefined(u) ==
    \A i \in DOMAIN u : \A k \in DOMAIN u[i].decls :
        u[i].decls[k].type.type \in struct_names(u) \cup DOMAIN builtin_types

\* check_struct has just returned for struct idx - 1
JustChecked == result \in {"running", "ok"} /\ idx > 1

RECURSIVE SumWidths(_, _)
SumWidths(ws, n) == IF n = 0 THEN 0 ELSE ws[n] + SumWidths(ws, n - 1)

FieldWidth(f) == IF f.level > 0 THEN pointer_size ELSE builtin_types[f.type]

\* the byte distance from field k of a laid-out struct to what follows it
SlotOf(st, k) ==
    (IF k = Len(st.decls) THEN st.size ELSE st.decls[k + 1].soffset)
        - st.decls[k].soffset

\* C2 as stated: on a first call of check_structs, (1) a recursive-struct
\* error is raised only when the struct being checked reaches, through
\* by-value members, a struct that contains itself by value: members with
\* indirection > 0 never trigger it, whatever they point to; (2) every unit in
\* which some struct contains itself by value, directly or through a chain,
\* ends in the recursive-struct error; (3) in the layout that check_struct
\* returns, every member with indirection > 0 takes 8 bytes.  Part (2) fails:
\* check_struct tests the member names and the member types of a struct
\* before it expands it, so struct A { A x; A x; } ends in "defined twice"
\* and struct A { Q y; A x; } in "type not found".
C2_AnyCycleRaises ==
    fresh =>
      /\ result = "recursive struct definition" =>
            \E j \in Closure(parsed, {idx}, Len(parsed)) : ContainsItself(parsed, j)
      /\ (result \notin {"idle", "running"} /\ ~Acyclic(parsed))
            => result = "recursive struct definition"
      /\ JustChecked =>
            \A k \in DOMAIN structs[idx - 1].decls :
                structs[idx - 1].decls[k].type.level > 0
                    => SlotOf(structs[idx - 1], k) = 8

\* struct i of unit u has two members of the same name
HasRepeatedMember(u, i) ==
    \E k, l \in DOMAIN u[i].decls : k # l /\ u[i].decls[k].name = u[i].decls[l].name

\* struct i of unit u has a member (of any indirection) whose base type is
\* neither a builtin nor a struct of the unit
HasUndefinedMember(u, i) ==
    \E k \in DOMAIN u[i].decls : ~check_vardecl(u[i].decls[k], u)

\* C2, amended: on a first call of check_structs, (1) a recursive-struct error
\* is raised only when the struct being checked reaches, through by-value
\* members, a struct that contains itself by value: members with indirection
\* > 0 never trigger it, whatever they point to; (2) a unit in which some
\* struct contains itself by value, directly or through a chain, is never
\* accepted: the call ends in an exception, which is the recursive-struct
\* error unless the struct at which the call stops has a repeated member name
\* ("defined twice"), has a member of undefined type itself ("type not
\* found"), or, its own members passing both tests, reaches by value a struct
\* with a by-value member of undefined type (TypeError); in particular it is the recursive-struct error whenever
\* all member names of a struct are distinct and all types are defined; (3)
\* in the layout that check_struct returns, every member with indirection > 0
\* takes 8 bytes.
C2_CycleDetection ==
    fresh =>
      /\ result = "recursive struct definition" =>
            \E j \in Closure(parsed, {idx}, Len(parsed)) : ContainsItself(parsed, j)
      /\ (result \notin {"idle", "running"} /\ ~Acyclic(parsed)) =>
            /\ result \in {"recursive struct definition", "defined twice",
                           "type not found", "TypeError"}
            /\ result = "defined twice" => HasRepeatedMember(parsed, idx)
            /\ result = "type not found" => HasUndefinedMember(parsed, idx)
            /\ result = "TypeError" =>
                  /\ ~HasRepeatedMember(parsed, idx) /\ ~HasUndefinedMember(parsed, idx)
                  /\ \E j \in Closure(parsed, ByValue(parsed, idx), Len(parsed)) :
                        \E k \in DOMAIN parsed[j].decls :
                            /\ parsed[j].decls[k].type.level = 0
                            /\ ~check_vardecl(parsed[j].decls[k], parsed)
            /\ (DistinctMembers(parsed) /\ AllDefined(parsed))
                  => result = "recursive struct definition"
      /\ JustChecked =>
            \A k \in DOMAIN structs[idx - 1].decls :
                structs[idx - 1].decls[k].type.level > 0
                    => SlotOf(structs[idx - 1], k) = 8

\* C2 witness: struct A { A* x; B y; } struct B { A x; } on a first call: the
\* pointer to A itself passed (B's member sits 8 bytes in), the by-value chain
\* A -> B -> A raised
C2_Witness ==
    /\ fresh /\ result = "recursive struct definition" /\ idx = 1
    /\ Len(parsed) = 2 /\ Len(parsed[1].decls) = 2
    /\ parsed[1].decls[1].type.type = "A" /\ parsed[1].decls[1].type.level = 1
    /\ parsed[1].decls[2].type.type = "B" /\ parsed[1].decls[2].type.level = 0
    /\ Len(parsed[2].decls) = 1
    /\ parsed[2].decls[1].type.type = "A" /\ parsed[2].decls[1].type.level = 0
    /\ structs[2].decls[1].soffset = 8

RECURSIVE LeavesFrom(_, _, _)
\* the leaf fields of members k.. of struct i of unit u, in declaration order,
\* nested ones under the dotted path of the members leading to them
LeavesFrom(u, i, k) ==
    IF k > Len(u[i].decls) THEN <<>>
    ELSE LET d == u[i].decls[k]
         IN  (IF d.type.level > 0 \/ d.type.type \in DOMAIN builtin_types
              THEN <<[name |-> d.name, type |-> d.type.type, level |-> d.type.level]>>
              ELSE LET in == LeavesFrom(u, struct_dict(u, d.type.type), 1)
                   IN  [j \in DOMAIN in |->
                          [in[j] EXCEPT !.name = d.name \o "." \o in[j].name]])
             \o LeavesFrom(u, i, k + 1)

LaidOutAs(st, leaves) ==
    LET ws == [j \in DOMAIN leaves |-> FieldWidth(leaves[j])]
    IN  /\ Len(st.decls) = Len(leaves)
        /\ \A j \in DOMAIN leaves :
              /\ st.decls[j].name = leaves[j].name
              /\ st.decls[j].type = Type(leaves[j].type, leaves[j].level)
              /\ st.decls[j].soffset = SumWidths(ws, j - 1)
        /\ st.size = SumWidths(ws, Len(leaves))

\* C3: for an acyclic unit whose member types are all defined, when
\* check_struct returns for a struct S, S.decls is the list of S's leaf fields
\* in declaration order, nested fields under their dotted path, each at the
\* offset that is the sum of the widths of the leaves before it, and S.size is
\* the sum of all the widths.
C3_Flattening ==
    (JustChecked /\ Acyclic(parsed) /\ AllDefined(parsed))
        => LaidOutAs(structs[idx - 1], LeavesFrom(parsed, idx - 1, 1))

\* C3 witness: check_struct has returned for a struct whose second member is a
\* struct held by value: its field y.x lies at a non-zero offset
C3_Witness ==
    /\ JustChecked /\ Acyclic(parsed) /\ AllDefined(parsed)
    /\ Len(parsed[idx - 1].decls) = 2
    /\ parsed[idx - 1].decls[2].type.level = 0
    /\ parsed[idx - 1].decls[2].type.type \in struct_names(parsed)
    /\ \E k \in DOMAIN structs[idx - 1].decls :
          /\ structs[idx - 1].decls[k].name = "y.x"
          /\ structs[idx - 1].decls[k].soffset > 0

RECURSIVE CheckStructsFrom(_, _, _)
\* the for loop of check_structs from its k-th iteration on, as one step
CheckStructsFrom(heap, k, sc) ==
    IF k > Len(heap) THEN [err |-> "ok", heap |-> heap, scope |-> sc]
    ELSE LET r == check_struct(heap, k, sc)
         IN  IF r.err # "none" THEN [err |-> r.err, heap |-> r.heap, scope |-> r.scope]
             ELSE CheckStructsFrom(r.heap, k + 1, r.scope)

\* check_structs(u) as the first call of a process: the scope object of
\* expand_struct is still the empty set its def statement created
FirstCall(u) == CheckStructsFrom(u, 1, {})

\* C11: check_structs holds no state across calls: (1) the cycle-guard set of
\* expand_struct is empty whenever no expansion is in progress; (2) whatever
\* calls came before, also calls that raised the recursive-struct error, a
\* call that has ended gave the outcome the same call gives as the first one
\* of a fresh process: the same error, or the same layouts.
C11_NoStateAcrossCalls ==
    /\ scope = {}
    /\ result \notin {"idle", "running"} =>
          /\ result = FirstCall(parsed).err
          /\ result = "ok" => structs = FirstCall(parsed).heap

\* the unit has a by-value member whose base type is neither a builtin nor a
\* struct of the unit
HasUndefinedByValue(u) ==
    \E i \in DOMAIN u : \E k \in DOMAIN u[i].decls :
        /\ u[i].decls[k].type.level = 0
        /\ u[i].decls[k].type.type \notin struct_names(u) \cup DOMAIN builtin_types

\* C12: a first call of check_structs on a unit with distinct member names
\* and no by-value cycle, in which some by-value member (indirection 0) has a
\* base type that is neither a builtin nor a known struct, ends with the
\* SemanticsException for an undefined type, whether the member belongs to
\* the struct being checked or to a nested struct that is expanded in place
\* before it has been checked itself; no failure of another kind (a
\* TypeError) escapes from check_structs.
C12_UndefinedType ==
    /\ ( /\ fresh /\ result \notin {"idle", "running"}
         /\ DistinctMembers(parsed) /\ Acyclic(parsed)
         /\ HasUndefinedByValue(parsed) )
          => result = "type not found"
    /\ result # "TypeError"

\* C13: once check_struct has returned for a struct S, every later iteration
\* of the same check_structs call (the checking and expansion of another
\* struct, also one that embeds S by value at a non-zero offset) leaves S's
\* flattened field list, the offset of each of its fields and S.size as they
\* were.
C13_CheckedStructFrame ==
    [][ (fresh /\ result = "running")
            => \A j \in 1..(idx - 1) : structs'[j] = structs[j] ]_vars

----------------------------------------------------------------------------
(* Claims about check_funcs.                                               *)

RECURSIVE ReturnsIn(_)
\* the return statements found in a body, through nested blocks, if and while
ReturnsIn(stmt) ==
    CASE stmt.node = "RetStatement" -> {stmt}
      [] stmt.node = "BlockStatement" ->
            UNION {ReturnsIn(stmt.stmts[k]) : k \in DOMAIN stmt.stmts}
      [] stmt.node = "WhileStatement" -> ReturnsIn(stmt.stmt)
      [] stmt.node = "IfStatement" ->
            ReturnsIn(stmt.stmt) \cup ReturnsIn(stmt.elsestmt)
      [] OTHER -> {}

IsParam(func, e) ==
    e.node = "Variable" /\ \E k \in DOMAIN func.args : func.args[k].name = e.name

\* the declared type of the parameter a return expression names
ParamType(func, e) ==
    (CHOOSE d \in {func.args[k] : k \in DOMAIN func.args} : d.name = e.name).type

ValidSignature(func, heap) ==
    /\ type_exists(func.type.type, heap)
    /\ \A k \in DOMAIN func.args : type_exists(func.args[k].type.type, heap)
    /\ \A k, l \in DOMAIN func.args :
          func.args[k].name = func.args[l].name => k = l

IsMismatch(e) ==
    e \in {"return type mismatch", "return type mismatch or missing return statement"}

\* C1: a function with a valid return type and valid parameters, whose body
\* holds return statements and whose return expressions are parameters (so
\* that their types are the declared ones), is
\* refused for a return-type mismatch exactly when its return statements have
\* more than one distinct type or their single type is not the declared
\* return type; when every return has the declared type it is accepted.
C1_ReturnTypeCheck ==
    \A k \in 1..Len(funcs) :
        LET f == funcs[k]
            types == {ParamType(f, r.value) : r \in ReturnsIn(f.stmt)}
        IN  ( /\ outcome # "running" /\ (k < fidx \/ (k = fidx /\ outcome # "ok"))
              /\ ValidSignature(f, structs)
              /\ ReturnsIn(f.stmt) # {}
              /\ \A r \in ReturnsIn(f.stmt) : IsParam(f, r.value) )
            => /\ IsMismatch(outcome) /\ k = fidx
                    <=> (Cardinality(types) > 1 \/ types # {f.type})
               /\ (types = {f.type}) => (k < fidx \/ outcome = "ok")

----------------------------------------------------------------------------
(* Claims about the tokenizer.                                             *)

\* the comparison operators of the grammar (parse_condition)
ConditionOps ==
    << <<"=","=">>, <<"!","=">>, <<"<","=">>, <<">","=">>, <<"<">>, <<">">> >>

\* the lengths of the valid tokens that start at index i of text: configured
\* keywords and operators, operators of the grammar, identifiers, literals
ValidLengths(text, i) ==
    {Len(userdefined_atom[k]) :
        k \in {k \in DOMAIN userdefined_atom : IsPrefixAt(userdefined_atom[k], text, i)}}
    \cup {Len(ConditionOps[k]) :
        k \in {k \in DOMAIN ConditionOps : IsPrefixAt(ConditionOps[k], text, i)}}
    \cup {e - i : e \in {MatchId(text, i), MatchInt(text, i), MatchHex(text, i),
                        MatchStr(text, i)} \ {0 - 1}}

\* C9: every token the tokenizer yields is the longest valid token that
\* starts at its position: no longer configured keyword or operator, operator
\* of the grammar or identifier starts there.
C9_MaximalMunch ==
    \A k \in DOMAIN tokens :
        \A n \in ValidLengths(src, spans[k].start) :
            n <= spans[k].end - spans[k].start

----------------------------------------------------------------------------
(* Claims about the parser.                                                *)

\* the function called name, given toks alone, returns having taken them all
ParsesAll(name, toks) ==
    LET r == Parser(name, Lookahead(toks, eof), None)
    IN  r.how = "return" /\ r.tok.peek.type = "eof"

\* what it returns then
ValueOf(name, toks) == Parser(name, Lookahead(toks, eof), None).value

From(toks, k) == SubSeq(toks, k, Len(toks))

\* the tokens of the parameter list of a function of n parameters, each
\* "type name", end at this index
HeadLen(n) == IF n = 0 THEN 4 ELSE 3 * n + 3

\* input is "type name ( type name , ... ) body" with n parameters
IsFunctionOf(n) ==
    /\ Len(input) >= HeadLen(n)
    /\ input[1].type = "id" /\ input[2].type = "id" /\ input[3].type = "("
    /\ n = 0 => input[4].type = ")"
    /\ \A k \in 1..n :
          /\ input[3 * k + 1].type = "id"
          /\ input[3 * k + 2].type = "id"
          /\ input[3 * k + 3].type = IF k < n THEN "," ELSE ")"
    /\ ParsesAll("parse_statement", From(input, HeadLen(n) + 1))

\* C4: parse_function on "type name ( parameters ) statement" returns a Func
\* with the declared return type, the declared name, one VarDecl per
\* parameter in source order and the statement as body, for zero, one or
\* several parameters.
C4_FunctionShape ==
    entry = "parse_function" =>
        \A n \in 0..MaxParams :
            IsFunctionOf(n) =>
                /\ parsing = "returned"
                /\ ast = Func(Type(input[1].value, 0), input[2].value,
                              [k \in 1..n |->
                                  VarDeclStatement(Type(input[3 * k + 1].value, 0),
                                                   input[3 * k + 2].value)],
                              ValueOf("parse_statement", From(input, HeadLen(n) + 1)))

\* C5: parse_unary on "- - factor" or "~ ~ factor" returns what parse_factor
\* returns for the factor alone, and on "- factor" or "~ factor" one UnaryOp
\* of the operator and the factor.
C5_UnaryCancellation ==
    (entry = "parse_unary" /\ Len(input) >= 2 /\ input[1].type \in {"-", "~"}) =>
        /\ (input[2].type = input[1].type /\ ParsesAll("parse_factor", From(input, 3)))
              => /\ parsing = "returned"
                 /\ ast = ValueOf("parse_factor", From(input, 3))
        /\ ParsesAll("parse_factor", From(input, 2))
              => /\ parsing = "returned"
                 /\ ast = UnaryOp(input[1].type, ValueOf("parse_factor", From(input, 2)))

RECURSIVE Delivered(_)
\* no statement position below s holds a tuple
Delivered(s) ==
    CASE s.node = "tuple" -> \A k \in DOMAIN s.items : Delivered(s.items[k])
      [] s.node = "BlockStatement" ->
           \A k \in DOMAIN s.stmts :
               s.stmts[k].node # "tuple" /\ Delivered(s.stmts[k])
      [] s.node = "WhileStatement" -> s.stmt.node # "tuple" /\ Delivered(s.stmt)
      [] s.node = "IfStatement" ->
           /\ s.stmt.node # "tuple" /\ Delivered(s.stmt)
           /\ s.elsestmt.node # "tuple" /\ Delivered(s.elsestmt)
      [] OTHER -> TRUE

\* input is "type name = id ;" from index k on up to index k + 4
IsInitializedDecl(k) ==
    /\ input[k].type = "id" /\ input[k + 1].type = "id" /\ input[k + 2].type = "="
    /\ input[k + 3].type = "id" /\ input[k + 4].type = ";"

\* C6: a declaration with an initializer reaches the enclosing node as a
\* VarDeclStatement followed by an AssignStatement, in a block and as the
\* body of an if, an else or a while, never as one combined value; a
\* declaration without initializer is one VarDeclStatement.
C6_DeclarationDesugared ==
    (entry = "parse_statement" /\ parsing = "returned") =>
        /\ Delivered(ast)
        /\ (Len(input) = 7 /\ input[1].type = "{" /\ IsInitializedDecl(2)
               /\ input[7].type = "}")
              => ast = BlockStatement(
                          <<VarDeclStatement(Type(input[2].value, 0), input[3].value),
                            AssignStatement(input[3].value, Variable(input[5].value))>>)
        /\ (Len(input) = 3 /\ input[1].type = "id" /\ input[2].type = "id"
               /\ input[3].type = ";")
              => ast = VarDeclStatement(Type(input[1].value, 0), input[2].value)

\* input is "if cond body": cond ends at index i, body at index j; the body
\* begins with a token that cannot continue the condition
IsIfUpTo(i, j) ==
    /\ input[1].type = "if"
    /\ ParsesAll("parse_condition", SubSeq(input, 2, i))
    /\ input[i + 1].type \in {"id", "{", "return", "while"}
    /\ ParsesAll("parse_statement", SubSeq(input, i + 1, j))

\* C7: parse_if on "if cond body else stmt" consumes the else and returns an
\* IfStatement whose elsestmt is stmt; on "if cond body" not followed by else
\* it returns one without elsestmt and consumes nothing more.
C7_IfElse ==
    (entry = "parse_statement" /\ ast.node # "tuple") =>
        \A i \in 2..Len(input) : \A j \in (i + 1)..Len(input) :
            IsIfUpTo(i, j) =>
                /\ (j = Len(input) \/ input[j + 1].type # "else")
                      => /\ parsing = "returned"
                         /\ ast = IfStatement(
                                     ValueOf("parse_condition", SubSeq(input, 2, i)),
                                     ValueOf("parse_statement", SubSeq(input, i + 1, j)),
                                     None)
                         /\ tok.taken = j
                /\ (j + 1 < Len(input) /\ input[j + 1].type = "else"
                       /\ ParsesAll("parse_statement", From(input, j + 2)))
                      => /\ parsing = "returned"
                         /\ ast = IfStatement(
                                     ValueOf("parse_condition", SubSeq(input, 2, i)),
                                     ValueOf("parse_statement", SubSeq(input, i + 1, j)),
                                     ValueOf("parse_statement", From(input, j + 2)))

\* additive < multiplicative < shift < bitwise (0: not a binary operator)
Precedence(op) ==
    CASE op \in {"+", "-"} -> 1
      [] op \in {"*", "/"} -> 2
      [] op \in {">>>", ">>", "<<"} -> 3
      [] op \in {"&", "|", "^"} -> 4
      [] OTHER -> 0

\* C8: parse_expression on "a op1 b op2 c" groups b with the operator that
\* binds tighter (additive < multiplicative < shift < bitwise) and nests
\* operators of one level to the left; so a << b & c is
\* BinaryOp(<<, a, BinaryOp(&, b, c)).
C8_Precedence ==
    (/\ entry = "parse_expression" /\ Len(input) = 5
     /\ input[1].type = "id" /\ input[3].type = "id" /\ input[5].type = "id"
     /\ Precedence(input[2].type) > 0 /\ Precedence(input[4].type) > 0) =>
        /\ parsing = "returned"
        /\ ast = IF Precedence(input[4].type) > Precedence(input[2].type)
                 THEN BinaryOp(input[2].type, Variable(input[1].value),
                               BinaryOp(input[4].type, Variable(input[3].value),
                                        Variable(input[5].value)))
                 ELSE BinaryOp(input[4].type,
                               BinaryOp(input[2].type, Variable(input[1].value),
                                        Variable(input[3].value)),
                               Variable(input[5].value))

\* C10: parse, in a loop that tests the lookahead token, has taken at least
\* one token from the Lookahead since the test before (so that the loops,
\* and with them parse, end on every finite token sequence).
C10_LoopsConsume ==
    (entry = "parse" /\ parsing = "unary_loop" /\ tested >= 0) => tok.taken > tested

=============================================================================
